---- MODULE Spec2Model ----
(***************************************************************************)
(* Security News Bot (main.py): RSS -> Groq summary -> gTTS -> RVC voice   *)
(* conversion -> Telegram.  The module models main() as a sequential       *)
(* state machine with one action per statement group, the feed reader and  *)
(* the model cache as operators, and every external service (feedparser,   *)
(* Groq, gTTS, ffmpeg, RVC, HTTP) as a nondeterministic outcome.           *)
(*                                                                         *)
(* Time is counted in whole hours.  Titles and links are opaque integer    *)
(* tokens (a link is never equal to a title).  A temporary file is a       *)
(* record [stem, suffix]; a file of the model cache directory is a record  *)
(* [depth, ext] (depth 0 = directly in MODEL_CACHE_DIR).                   *)
(***************************************************************************)
EXTENDS Integers, Sequences, FiniteSets, TLC

\* ---- bounds of the model ------------------------------------------------
NumFeeds == 2
MaxFeedLen == 3
MaxFaults == 2
MaxCalls == 3

\* ---- configuration (main.py:22-38) ---------------------------------------
MAX_ARTICLES_PER_BLOG == 2
LOOKBACK_HOURS == 24
FEEDS == [i \in 1..NumFeeds |-> i]

\* None: an absent or unparseable timestamp field
NoTime == -1

VARIABLES
  pc,            \* position of main(), or of the function call being verified
  HF_MODEL_URL,  \* TRUE iff the environment sets a non-empty model URL
  cache,         \* files of MODEL_CACHE_DIR
  use_rvc, model_pth, model_index,
  model_error,   \* download_model_if_needed raised in this run
  blog,          \* index into FEEDS of the source being processed
  feed, now,     \* arguments of the verified get_recent_articles call
  articles, art, \* list returned for the current source, index into it
  summary,       \* "none" | "llm" | "fallback"
  tts_path, audio_path,
  rvc_raised,    \* apply_rvc raised for the current article
  disk,          \* temporary audio files that exist
  tmp_count,     \* temporary names handed out so far
  channel,       \* messages the chat channel has accepted, in order
  deliveries,    \* calls of tg_send_audio, in order, with their outcome
  total_sent,
  report,        \* count printed by the terminal report, -1 before it
  http_requests, \* GET requests issued to the model URL
  dl_calls,      \* calls of download_model_if_needed
  last_call,     \* outcome of the latest download_model_if_needed call
  populated,     \* an earlier call downloaded, extracted and returned
  rvc_calls, rvc_fails,
  faults,        \* conversion and channel failures injected so far
  fetched,       \* per fetched source, in order: the list that came back
  trace,         \* calls main() has made so far: posts, sleeps, article steps
  error          \* the step whose exception ended main(), "none" otherwise

vars == <<pc, HF_MODEL_URL, cache, use_rvc, model_pth, model_index,
          model_error, blog, feed, now, articles, art, summary, tts_path,
          audio_path, rvc_raised, disk, tmp_count, channel, deliveries,
          total_sent, report, http_requests, dl_calls, last_call, populated,
          rvc_calls, rvc_fails, faults, fetched, trace, error>>

\* ==== Feed Reader (main.py:43-75) =========================================

\* lines 55-60: published_parsed is preferred, updated_parsed is the fallback
EntryPub(entry) ==
  IF entry.published # NoTime THEN entry.published
  ELSE IF entry.updated # NoTime THEN entry.updated
  ELSE NoTime

\* line 62 with the boundary excluded as well (a plausible slip)
SkipEntry_exclusive(entry, cutoff) ==
  EntryPub(entry) = NoTime \/ EntryPub(entry) <= cutoff

\* line 62: if pub is None or pub < cutoff: continue
SkipEntry(entry, cutoff) ==
  EntryPub(entry) = NoTime \/ EntryPub(entry) < cutoff

\* lines 65-70
MakeArticle(entry) ==
  [title |-> entry.title, link |-> entry.link, pub |-> EntryPub(entry)]

\* line 72 with an off-by-one (a plausible slip)
CapReached_late(acc) == Len(acc) > MAX_ARTICLES_PER_BLOG

\* line 72: if len(articles) >= MAX_ARTICLES_PER_BLOG: break
CapReached(acc) == Len(acc) >= MAX_ARTICLES_PER_BLOG

\* lines 54-73: the loop over feed.entries, from entry i with articles = acc
RECURSIVE CollectArticles(_, _, _, _)
CollectArticles(entries, i, cutoff, acc) ==
  IF i > Len(entries) THEN acc
  ELSE IF SkipEntry(entries[i], cutoff)
       THEN CollectArticles(entries, i + 1, cutoff, acc)
       ELSE LET acc2 == Append(acc, MakeArticle(entries[i]))
            IN IF CapReached(acc2) THEN acc2
               ELSE CollectArticles(entries, i + 1, cutoff, acc2)

\* lines 45-75: a parse failure yields the empty list
get_recent_articles(f, t) ==
  IF ~f.ok THEN <<>>
  ELSE CollectArticles(f.entries, 1, t - LOOKBACK_HOURS, <<>>)

\* ---- inputs of the feed reader ------------------------------------------
NowChoices == {100, 101}
LinkOf(title) == title + 1000

\* every feed of up to MaxFeedLen entries; entry i carries title i
\* <<published, updated>>: stale, at the cutoff of one of the current times,
\* fresh or absent, with the two fields agreeing and disagreeing
StampPairs ==
  { <<NoTime, NoTime>>, <<NoTime, 75>>, <<NoTime, 76>>, <<NoTime, 77>>,
    <<75, 77>>, <<76, 75>>, <<77, 75>>, <<77, NoTime>> }
FeedOfPairs(ps) ==
  [ok |-> TRUE,
   entries |-> [i \in 1..Len(ps) |->
                  [published |-> ps[i][1], updated |-> ps[i][2],
                   title |-> i, link |-> LinkOf(i)]]]
BrokenFeed == [ok |-> FALSE, entries |-> <<>>]
AllFeeds ==
  {BrokenFeed} \cup
  UNION {{FeedOfPairs(ps) : ps \in [1..n -> StampPairs]} : n \in 0..MaxFeedLen}


\* feeds a run is given for source b: titles are unique across sources
RunStampSeqs ==
  { <<>>,
    << <<77, NoTime>> >>,
    << <<75, 77>>, <<77, 75>>, <<NoTime, NoTime>>, <<NoTime, 77>>, <<77, 77>> >> }
RunFeed(b, ps) ==
  [ok |-> TRUE,
   entries |-> [i \in 1..Len(ps) |->
                  [published |-> ps[i][1], updated |-> ps[i][2],
                   title |-> 10 * b + i, link |-> LinkOf(10 * b + i)]]]
RunFeeds(b) == {BrokenFeed} \cup {RunFeed(b, ps) : ps \in RunStampSeqs}

\* ==== Voice Model Cache (main.py:116-148) =================================

NoFile == [depth |-> 0, ext |-> ""]
ZipPath == [depth |-> 0, ext |-> "zip"]
ArchiveFiles == [depth : {0, 1}, ext : {"pth", "index"}]

\* MODEL_CACHE_DIR.glob("*.ext"): the directory itself only
Glob(c, ext) == {f \in c : f.depth = 0 /\ f.ext = ext}
\* MODEL_CACHE_DIR.rglob("*.ext"): the directory and its subdirectories
RGlob(c, ext) == {f \in c : f.ext = ext}

\* lines 122-123: the presence check of a call
CachedFiles(c, ext) == Glob(c, ext)

\* lines 127 and 148: (str(pth_files[0]), str(index_files[0]) or ""); the
\* order of a directory listing is not specified, so any match can be first
Returned(c, pths, idxs, http) ==
  {[cache |-> c, ok |-> TRUE, pth |-> p, index |-> i, http |-> http] :
     p \in pths, i \in (IF idxs # {} THEN idxs ELSE {NoFile})}

Raised(c, http) ==
  {[cache |-> c, ok |-> FALSE, pth |-> NoFile, index |-> NoFile, http |-> http]}

\* the possible results of one call, given the cache directory, whether a
\* URL is configured, and what the URL serves
download_model_if_needed(c, url, remote) ==
  IF CachedFiles(c, "pth") # {}
  THEN Returned(c, CachedFiles(c, "pth"), CachedFiles(c, "index"), 0)
  ELSE IF ~url
  THEN Raised(c, 0)                          \* requests.get("") -> MissingSchema
  ELSE IF remote.status = "http_error"
  THEN Raised(c, 1)                          \* line 132-133
  ELSE IF remote.status = "bad_zip"
  THEN Raised(c \cup {ZipPath}, 1)           \* line 138 raises, zip stays
  ELSE LET c2 == (c \cup remote.files) \ {ZipPath}   \* lines 134-140
       IN IF RGlob(c2, "pth") = {}
          THEN Raised(c2, 1)                 \* line 146
          ELSE Returned(c2, RGlob(c2, "pth"), RGlob(c2, "index"), 1)

RemotesOver(fileSets) ==
  {[status |-> "http_error", files |-> {}], [status |-> "bad_zip", files |-> {}]}
  \cup {[status |-> "ok", files |-> fs] : fs \in fileSets}
AllRemotes == RemotesOver(SUBSET ArchiveFiles)
TopPth == [depth |-> 0, ext |-> "pth"]
TopIndex == [depth |-> 0, ext |-> "index"]
SubPth == [depth |-> 1, ext |-> "pth"]
RunRemotes == RemotesOver({{SubPth}, {TopIndex}})
\* what a run starts with: a URL and a cache directory that holds no model
\* yet, or no URL, the cache directory empty or holding a model (calls that
\* find the model in the cache are the subject of SpecCache)
RunConfigs ==
  { [url |-> TRUE, cache |-> {}],
    [url |-> FALSE, cache |-> {}],
    [url |-> FALSE, cache |-> {TopPth, TopIndex}] }

\* ==== temporary audio files ==============================================

NoPath == [stem |-> 0, suffix |-> ""]
\* tempfile.NamedTemporaryFile(suffix=".mp3"): the n-th fresh name
TmpName(n) == [stem |-> n, suffix |-> ".mp3"]
\* path.replace(".mp3", new): the suffix is the only occurrence in a temp name
Replace(p, new) == IF p.suffix = ".mp3" THEN [p EXCEPT !.suffix = new] ELSE p

\* ==== Voice Converter (main.py:151-180) ===================================

RvcFailures == {"import", "ffmpeg_in", "load_model", "infer_file", "ffmpeg_out"}

\* apply_rvc that consumes its input file (a plausible slip)
apply_rvc_consuming(d, mp3_in, mp3_out, fail_at) ==
  LET wav_in == Replace(mp3_in, "_in.wav")
      wav_out == Replace(mp3_in, "_rvc.wav")
  IN IF fail_at = "none"
     THEN (d \cup {mp3_out}) \ {wav_in, wav_out, mp3_in}
     ELSE d \ {mp3_in}

\* the files on disk after apply_rvc ran, failing at fail_at or not at all;
\* a failing step writes no output, the steps before it have written theirs
apply_rvc(d, mp3_in, mp3_out, fail_at) ==
  LET wav_in == Replace(mp3_in, "_in.wav")
      wav_out == Replace(mp3_in, "_rvc.wav")
  IN CASE fail_at \in {"import", "ffmpeg_in"} -> d
       [] fail_at \in {"load_model", "infer_file"} -> d \cup {wav_in}
       [] fail_at = "ffmpeg_out" -> d \cup {wav_in, wav_out}
       [] fail_at = "none" -> (d \cup {wav_in, wav_out, mp3_out}) \ {wav_in, wav_out}

\* ==== Delivery Channel (main.py:185-209) ==================================

PostOutcomes == {"ok", "notok", "raise"}

HeaderMsg(b, n) ==
  [kind |-> "header", title |-> FEEDS[b], link |-> 0, n |-> n, audio |-> NoPath]
NoticeMsg(title, link) ==
  [kind |-> "notice", title |-> title, link |-> link, n |-> 0, audio |-> NoPath]
AudioMsg(title, link, path) ==
  [kind |-> "audio", title |-> title, link |-> link, n |-> 0, audio |-> path]

\* tg_send_text: the response is not inspected; only a transport error raises
tg_send_text(ch, msg, outcome) ==
  [channel |-> IF outcome = "ok" THEN Append(ch, msg) ELSE ch,
   raised |-> outcome = "raise"]

\* line 206 with the test inverted (a plausible slip)
NeedsFallback_inverted(a_out) == a_out = "ok"

\* line 206: if not resp.ok
NeedsFallback(a_out) == a_out = "notok"

\* tg_send_audio: open() raises if the file is missing; the audio post may
\* raise; a non-success response triggers the text notice
tg_send_audio(ch, d, title, link, path, a_out, t_out) ==
  IF path \notin d
  THEN [channel |-> ch, raised |-> TRUE, audio |-> "unopened", text |-> "none"]
  ELSE IF a_out = "raise"
  THEN [channel |-> ch, raised |-> TRUE, audio |-> "raise", text |-> "none"]
  ELSE LET ch1 == IF a_out = "ok" THEN Append(ch, AudioMsg(title, link, path))
                  ELSE ch
       IN IF NeedsFallback(a_out)
          THEN LET r == tg_send_text(ch1, NoticeMsg(title, link), t_out)
               IN [channel |-> r.channel, raised |-> r.raised,
                   audio |-> a_out, text |-> t_out]
          ELSE [channel |-> ch1, raised |-> FALSE, audio |-> a_out,
                text |-> "none"]


\* ==== Pipeline Orchestrator: main() (main.py:214-293) =====================

\* one call made by main(): a post, a sleep or a step on an article; id is
\* the article's title (the source for a header), n the header's item count
\* or the seconds slept
Ev(ev, id, n) == [ev |-> ev, id |-> id, n |-> n]

NoCall == [ok |-> FALSE, http |-> 0, populated_before |-> FALSE, made |-> FALSE]

\* the state of main() before its first statement
FreshRun ==
  /\ use_rvc = FALSE /\ model_pth = NoFile /\ model_index = NoFile
  /\ model_error = FALSE
  /\ blog = 1
  /\ articles = <<>> /\ art = 0
  /\ summary = "none"
  /\ tts_path = NoPath /\ audio_path = NoPath
  /\ rvc_raised = FALSE
  /\ disk = {}
  /\ tmp_count = 0
  /\ channel = <<>>
  /\ deliveries = <<>>
  /\ total_sent = 0
  /\ report = -1
  /\ http_requests = 0 /\ dl_calls = 0
  /\ last_call = NoCall /\ populated = FALSE
  /\ rvc_calls = 0 /\ rvc_fails = 0
  /\ faults = 0
  /\ fetched = <<>>
  /\ trace = <<>>
  /\ error = "none"

Init ==
  /\ pc = "ModelResolution"
  /\ \E cfg \in RunConfigs : HF_MODEL_URL = cfg.url /\ cache = cfg.cache
  /\ feed = BrokenFeed /\ now = 0
  /\ FreshRun

feedVars == <<feed, now>>
modelVars == <<cache, use_rvc, model_pth, model_index, model_error,
               http_requests, dl_calls, last_call, populated>>
loopVars == <<blog, articles, art>>
articleVars == <<summary, tts_path, audio_path, rvc_raised>>
fileVars == <<disk, tmp_count>>
channelVars == <<channel, deliveries, total_sent>>
rvcCounters == <<rvc_calls, rvc_fails>>

\* line 218 ignoring the configuration (a plausible slip: the cached model
\* would be used although no URL is configured)
RvcConfigured_always(url) == TRUE

\* line 218: use_rvc = bool(HF_MODEL_URL)
RvcConfigured(url) == url

\* lines 226-228 without the assignment use_rvc = False (a plausible slip)
RvcAfterLoad_kept(configured, loaded) == configured

\* lines 222-228: use_rvc after the attempt to load the model
RvcAfterLoad(configured, loaded) == configured /\ loaded

\* the bookkeeping of one download_model_if_needed call with result o
RecordCall(o) ==
  /\ cache' = o.cache
  /\ http_requests' = http_requests + o.http
  /\ dl_calls' = dl_calls + 1
  /\ last_call' = [ok |-> o.ok, http |-> o.http,
                   populated_before |-> populated, made |-> TRUE]
  /\ populated' = (populated \/ (o.ok /\ o.http = 1))

\* lines 217-230
ModelResolution ==
  /\ pc = "ModelResolution"
  /\ IF RvcConfigured(HF_MODEL_URL)
     THEN \E remote \in RunRemotes :
            \E o \in download_model_if_needed(cache, HF_MODEL_URL, remote) :
              /\ RecordCall(o)
              /\ use_rvc' = RvcAfterLoad(TRUE, o.ok)
              /\ model_pth' = o.pth
              /\ model_index' = o.index
              /\ model_error' = ~o.ok
     ELSE /\ use_rvc' = FALSE
          /\ UNCHANGED <<cache, model_pth, model_index, model_error,
                         http_requests, dl_calls, last_call, populated>>
  /\ pc' = "Fetch"
  /\ UNCHANGED <<HF_MODEL_URL, feedVars, loopVars, articleVars, fileVars,
                 channelVars, report, rvcCounters, faults, fetched, trace,
                 error>>

\* lines 232-238: the next source is fetched; an empty list skips the source
Fetch ==
  /\ pc = "Fetch"
  /\ blog <= Len(FEEDS)
  /\ \E f \in RunFeeds(blog), t \in NowChoices :
       LET got == get_recent_articles(f, t)
       IN /\ IF got = <<>>
             THEN /\ blog' = blog + 1
                  /\ articles' = <<>>
                  /\ art' = 0
                  /\ pc' = "Fetch"
             ELSE /\ articles' = got
                  /\ art' = 1
                  /\ blog' = blog
                  /\ pc' = "Announce"
          /\ fetched' = Append(fetched, [blog |-> FEEDS[blog], articles |-> got])
  /\ UNCHANGED <<HF_MODEL_URL, feedVars, modelVars, articleVars, fileVars,
                 channelVars, report, rvcCounters, faults, trace, error>>

FaultCost(outcome) == IF outcome = "ok" THEN 0 ELSE 1

\* line 247: time.sleep(1)
HeaderPause == <<Ev("sleep", 0, 1)>>

\* lines 240-247: the batch header, then time.sleep(1)
Announce ==
  /\ pc = "Announce"
  /\ \E outcome \in PostOutcomes :
       LET r == tg_send_text(channel, HeaderMsg(blog, Len(articles)), outcome)
       IN /\ faults + FaultCost(outcome) <= MaxFaults
          /\ faults' = faults + FaultCost(outcome)
          /\ channel' = r.channel
          /\ trace' = trace \o <<Ev("header", FEEDS[blog], Len(articles))>>
                            \o (IF r.raised THEN <<>> ELSE HeaderPause)
          /\ error' = IF r.raised THEN "announce" ELSE "none"
          /\ pc' = IF r.raised THEN "Crashed" ELSE "Summarize"
  /\ UNCHANGED <<HF_MODEL_URL, feedVars, modelVars, loopVars, articleVars,
                 fileVars, deliveries, total_sent, report, rvcCounters,
                 fetched>>

\* line 249 iterating from the end of the list (a plausible slip)
CurrentArticle_reversed(as, i) == as[Len(as) + 1 - i]

\* line 249: for article in articles, at its i-th iteration
CurrentArticle(as, i) == as[i]

\* lines 80-103: summarize_to_russian; the Groq constructor is outside the
\* try block, so its failure is not absorbed
summarize_to_russian(outcome) ==
  CASE outcome = "ok" -> [raised |-> FALSE, text |-> "llm"]
    [] outcome = "call_failed" -> [raised |-> FALSE, text |-> "fallback"]
    [] outcome = "client_failed" -> [raised |-> TRUE, text |-> "none"]

\* lines 250-257
Summarize ==
  /\ pc = "Summarize"
  /\ \E outcome \in {"ok", "call_failed", "client_failed"} :
       LET r == summarize_to_russian(outcome)
       IN /\ summary' = r.text
          /\ error' = IF r.raised THEN "summarize" ELSE "none"
          /\ pc' = IF r.raised THEN "Crashed" ELSE "Synthesize"
  /\ trace' = Append(trace, Ev("summarize", CurrentArticle(articles, art).title, 0))
  /\ UNCHANGED <<HF_MODEL_URL, feedVars, modelVars, loopVars, tts_path,
                 audio_path, rvc_raised, fileVars, channelVars, report,
                 rvcCounters, faults, fetched>>

\* line 263 with the exception swallowed and the article skipped (a
\* plausible hardening that would hide the failure)
AfterSynthesis_skipping(ok) == IF ok THEN "Convert" ELSE "Cleanup"

\* line 263: tts_to_mp3 is called outside any try block
AfterSynthesis(ok) == IF ok THEN "Convert" ELSE "Crashed"

\* lines 259-263: the temporary file is created, then gTTS writes it or raises
Synthesize ==
  /\ pc = "Synthesize"
  /\ tmp_count' = tmp_count + 1
  /\ tts_path' = TmpName(tmp_count + 1)
  /\ disk' = disk \cup {TmpName(tmp_count + 1)}
  /\ \E ok \in BOOLEAN :
       /\ pc' = AfterSynthesis(ok)
       /\ error' = IF ok THEN "none" ELSE "synthesize"
  /\ trace' = Append(trace, Ev("synthesize", CurrentArticle(articles, art).title, 0))
  /\ summary' = "none"             \* read by tts_to_mp3, not read again
  /\ UNCHANGED <<HF_MODEL_URL, feedVars, modelVars, loopVars,
                 audio_path, rvc_raised, channelVars, report, rvcCounters,
                 faults, fetched>>

\* line 271 moved above the call (a plausible slip)
ConvertedPath_eager(tts, rvc, raised) == rvc

\* lines 266-274: audio_path after the conversion attempt
ConvertedPath(tts, rvc, raised) == IF raised THEN tts ELSE rvc

\* lines 273-274 also giving up conversion for the run (a plausible slip)
RvcAfterConvert_disabling(flag, raised) == flag /\ ~raised

\* lines 267-274: use_rvc is not assigned in the except branch
RvcAfterConvert(flag, raised) == flag

\* lines 265-274
Convert ==
  /\ pc = "Convert"
  /\ IF use_rvc
     THEN \E fail_at \in RvcFailures \cup {"none"} :
            LET raised == fail_at # "none"
                rvc_path == Replace(tts_path, "_kanevsky.mp3")
            IN /\ faults + (IF raised THEN 1 ELSE 0) <= MaxFaults
               /\ faults' = faults + (IF raised THEN 1 ELSE 0)
               /\ disk' = apply_rvc(disk, tts_path, rvc_path, fail_at)
               /\ audio_path' = ConvertedPath(tts_path, rvc_path, raised)
               /\ rvc_raised' = raised
               /\ rvc_calls' = rvc_calls + 1
               /\ rvc_fails' = rvc_fails + (IF raised THEN 1 ELSE 0)
               /\ use_rvc' = RvcAfterConvert(use_rvc, raised)
               /\ trace' = Append(trace,
                    Ev("convert", CurrentArticle(articles, art).title, 0))
     ELSE /\ audio_path' = tts_path
          /\ UNCHANGED <<disk, rvc_raised, rvc_calls, rvc_fails, faults,
                         use_rvc, trace>>
  /\ pc' = "Deliver"
  /\ UNCHANGED <<HF_MODEL_URL, feedVars, cache, model_pth, model_index,
                 model_error, http_requests, dl_calls, last_call, populated,
                 loopVars, summary, tts_path, tmp_count, channelVars, report,
                 fetched, error>>

\* lines 276-279: tg_send_audio, then total_sent += 1
Deliver ==
  /\ pc = "Deliver"
  /\ \E a_out \in PostOutcomes, t_out \in PostOutcomes :
       LET a == CurrentArticle(articles, art)
           r == tg_send_audio(channel, disk, a.title, a.link, audio_path,
                              a_out, t_out)
           cost == (IF r.audio \in {"notok", "raise"} THEN 1 ELSE 0)
                   + (IF r.text \in {"notok", "raise"} THEN 1 ELSE 0)
       IN /\ r.audio = "ok" => t_out = "ok"      \* t_out is not consulted
          /\ r.audio \in {"raise", "unopened"} => t_out = "ok"
          /\ faults + cost <= MaxFaults
          /\ faults' = faults + cost
          /\ channel' = r.channel
          /\ deliveries' = Append(deliveries,
               [title |-> a.title, link |-> a.link, path |-> audio_path,
                tts |-> tts_path, audio |-> r.audio, text |-> r.text,
                rvc_raised |-> rvc_raised, raised |-> r.raised,
                blog |-> blog])
          /\ total_sent' = IF r.raised THEN total_sent ELSE total_sent + 1
          /\ trace' = trace \o <<Ev("deliver", a.title, 0)>>
                            \o (IF r.text # "none"
                                THEN <<Ev("notice", a.title, 0)>> ELSE <<>>)
          /\ error' = IF r.raised THEN "deliver" ELSE "none"
          /\ pc' = IF r.raised THEN "Crashed" ELSE "Cleanup"
  /\ UNCHANGED <<HF_MODEL_URL, feedVars, modelVars, loopVars, articleVars,
                 fileVars, report, rvcCounters, fetched>>

\* line 286 left out (a plausible slip)
ArticlePause_none == <<>>

\* line 286: time.sleep(2)
ArticlePause == <<Ev("sleep", 0, 2)>>

\* line 249 stopping one article early (a plausible slip)
MoreArticles_short(i, n) == i + 1 < n

\* line 249: the for loop has another article after the i-th of n
MoreArticles(i, n) == i < n

\* the header post moved into the article loop (a plausible slip)
NextArticlePc_announce == "Announce"

\* lines 249-256: the next iteration starts at the summary, below the header
NextArticlePc == "Summarize"

\* lines 281-286: both paths are unlinked, time.sleep(2), next article
Cleanup ==
  /\ pc = "Cleanup"
  /\ disk' = disk \ {tts_path, audio_path}
  /\ summary' = "none" /\ tts_path' = NoPath /\ audio_path' = NoPath
  /\ rvc_raised' = FALSE
  /\ trace' = trace \o <<Ev("cleanup", CurrentArticle(articles, art).title, 0)>>
                    \o ArticlePause
  /\ IF MoreArticles(art, Len(articles))
     THEN /\ art' = art + 1
          /\ pc' = NextArticlePc
          /\ UNCHANGED <<blog, articles>>
     ELSE /\ art' = 0
          /\ articles' = <<>>
          /\ blog' = blog + 1
          /\ pc' = "Fetch"
  /\ UNCHANGED <<HF_MODEL_URL, feedVars, modelVars, tmp_count, channelVars,
                 report, rvcCounters, faults, fetched, error>>

\* lines 290-293
Report ==
  /\ pc = "Fetch"
  /\ blog > Len(FEEDS)
  /\ report' = total_sent
  /\ pc' = "Done"
  /\ UNCHANGED <<HF_MODEL_URL, feedVars, modelVars, loopVars, articleVars,
                 fileVars, channelVars, rvcCounters, faults, fetched, trace,
                 error>>

Next ==
  \/ ModelResolution
  \/ Fetch
  \/ Announce
  \/ Summarize
  \/ Synthesize
  \/ Convert
  \/ Deliver
  \/ Cleanup
  \/ Report

Spec == Init /\ [][Next]_vars

\* main() is a sequential program: as long as the call it is waiting for
\* returns, its next statement is executed
SpecLive == Spec /\ WF_vars(Next)


\* ==== the feed reader on its own: one call on any feed, at any time =======

InitFeed ==
  /\ pc = "FeedCall"
  /\ HF_MODEL_URL = FALSE
  /\ cache = {}
  /\ feed \in AllFeeds
  /\ now \in NowChoices
  /\ FreshRun

FeedCall ==
  /\ pc = "FeedCall"
  /\ articles' = get_recent_articles(feed, now)
  /\ pc' = "FeedReturned"
  /\ UNCHANGED <<HF_MODEL_URL, feedVars, modelVars, blog, art, articleVars,
                 fileVars, channelVars, report, rvcCounters, faults, fetched,
                 trace, error>>

NextFeed == FeedCall

SpecFeed == InitFeed /\ [][NextFeed]_vars

\* ==== the model cache on its own: successive calls, in one run or in ======
\* ==== successive runs, on a cache directory that persists =================

InitCache ==
  /\ pc = "CacheCall"
  /\ HF_MODEL_URL \in BOOLEAN
  /\ cache \in SUBSET ArchiveFiles
  /\ feed = BrokenFeed /\ now = 0
  /\ FreshRun

CacheCall ==
  /\ pc = "CacheCall"
  /\ dl_calls < MaxCalls
  /\ \E remote \in AllRemotes :
       \E o \in download_model_if_needed(cache, HF_MODEL_URL, remote) :
         /\ RecordCall(o)
         /\ model_pth' = o.pth
         /\ model_index' = o.index
         /\ model_error' = ~o.ok
  /\ UNCHANGED <<pc, HF_MODEL_URL, feedVars, use_rvc, loopVars, articleVars,
                 fileVars, channelVars, report, rvcCounters, faults, fetched,
                 trace, error>>

NextCache == CacheCall

SpecCache == InitCache /\ [][NextCache]_vars


\* ==== properties ==========================================================

Delivered == 1..Len(deliveries)

\* every Cleanup so far concerned a temporary name below tmp_count, and the
\* name tmp_count itself once main() has left the article's steps normally
ArticleFinished(n) ==
  \/ n < tmp_count
  \/ n = tmp_count /\ pc \in {"Fetch", "Announce", "Summarize", "Synthesize", "Done"}

\* C1 (as claimed): once main() has finished an article, on any handled exit
\* path, no temporary audio file created for that article (.mp3,
\* _kanevsky.mp3, _in.wav, _rvc.wav) exists on disk.
C1_CleanupLaw == \A f \in disk : ~ArticleFinished(f.stem)

\* C2: whenever apply_rvc raises, at whatever sub-step, main() goes on to the
\* Deliver step with audio_path = tts_path and that file on disk, and the
\* tg_send_audio call for such an article is passed the synthesized file and
\* finds it when it opens it.
C2_ConversionFallback ==
  /\ [](\A k \in Delivered :
          deliveries[k].rvc_raised =>
            /\ deliveries[k].path = deliveries[k].tts
            /\ deliveries[k].path.suffix = ".mp3"
            /\ deliveries[k].audio # "unopened")
  /\ [][(pc = "Convert" /\ rvc_raised') =>
          (pc' = "Deliver" /\ audio_path' = tts_path /\ tts_path \in disk')]_vars

\* C2 witness: an article whose conversion raised was sent as audio
C2_Witness ==
  \E k \in Delivered : deliveries[k].rvc_raised /\ deliveries[k].audio = "ok"

\* C3 (as claimed): whenever the channel answers the audio post with a
\* non-success status, the text notice is posted and the run goes on with
\* the next article.
C3_DeliveryFallback ==
  \A k \in Delivered :
    deliveries[k].audio = "notok" =>
      (deliveries[k].text # "none" /\ ~deliveries[k].raised)

\* C4 (as claimed): once a call has downloaded, extracted and returned a
\* weights path, every later call returns a weights path without issuing an
\* HTTP request.
C4_CacheIdempotence ==
  (last_call.made /\ last_call.populated_before) =>
    (last_call.ok /\ last_call.http = 0)

\* C5: a raising apply_rvc leaves use_rvc unchanged and leads to the Deliver
\* step of the same article; once a conversion has failed, conversion is
\* still enabled and apply_rvc has been attempted for every article that has
\* come past the Convert step, the later ones included.
C5_ConversionFailureLocal ==
  /\ [](rvc_fails > 0 =>
          /\ use_rvc
          /\ rvc_calls = Len(deliveries) + (IF pc = "Deliver" THEN 1 ELSE 0))
  /\ [][(pc = "Convert" /\ rvc_raised') =>
          (use_rvc' = use_rvc /\ pc' = "Deliver")]_vars

\* C5 witness: conversion raised for one article and was attempted again for
\* a later one
C5_Witness ==
  \E k \in Delivered : deliveries[k].rvc_raised /\ rvc_calls > k

\* C6 (as claimed): for every article that reached Deliver, whatever the
\* outcomes of the audio and text posts, the channel holds a message with the
\* article's title and link.
C6_NeverNothing ==
  \A k \in Delivered :
    \E i \in 1..Len(channel) :
      /\ channel[i].kind \in {"audio", "notice"}
      /\ channel[i].title = deliveries[k].title
      /\ channel[i].link = deliveries[k].link

\* ---- feed reader ---------------------------------------------------------

\* in the feed of that call, entry i carries title i
EntryOf(a) == feed.entries[a.title]
Cutoff == now - LOOKBACK_HOURS
IsReturned(i) == \E k \in 1..Len(articles) : articles[k].title = i
Full == /\ Len(articles) = MAX_ARTICLES_PER_BLOG

\* C7: every returned article has a timestamp, published if there is one and
\* last-updated otherwise, that is not older than now - LOOKBACK_HOURS; an
\* entry with neither field is never returned; the publication timestamp
\* decides when both are present; an entry exactly at the cutoff is returned
\* unless the cap was reached before it.
C7_RecencyFilter ==
  pc = "FeedReturned" =>
    /\ \A k \in 1..Len(articles) :
         LET e == EntryOf(articles[k])
         IN /\ e.published # NoTime \/ e.updated # NoTime
            /\ e.published # NoTime =>
                 (e.published >= Cutoff /\ articles[k].pub = e.published)
            /\ e.published = NoTime =>
                 (e.updated >= Cutoff /\ articles[k].pub = e.updated)
    /\ \A i \in 1..Len(feed.entries) :
         LET e == feed.entries[i]
         IN (e.published = Cutoff \/ (e.published = NoTime /\ e.updated = Cutoff))
            => \/ IsReturned(i)
               \/ Full /\ \A k \in 1..Len(articles) : articles[k].title < i

\* C7 witness: an article exactly at the cutoff is returned from a feed that
\* also has an entry without timestamps and a stale publication with a fresh
\* update
C7_Witness ==
  /\ pc = "FeedReturned"
  /\ \E k \in 1..Len(articles) : articles[k].pub = Cutoff
  /\ \E i \in 1..Len(feed.entries) :
       feed.entries[i].published = NoTime /\ feed.entries[i].updated = NoTime
  /\ \E i \in 1..Len(feed.entries) :
       /\ feed.entries[i].published # NoTime
       /\ feed.entries[i].published < Cutoff
       /\ feed.entries[i].updated >= Cutoff

Eligible(e) ==
  LET stamp == IF e.published # NoTime THEN e.published ELSE e.updated
  IN stamp # NoTime /\ stamp >= Cutoff
EligibleIdx == {i \in 1..Len(feed.entries) : Eligible(feed.entries[i])}
Min(a, b) == IF a <= b THEN a ELSE b

\* C8: the returned list has at most MAX_ARTICLES_PER_BLOG articles and is
\* exactly the first min(cap, number of eligible entries) eligible entries,
\* in feed order.
C8_CapAndOrder ==
  pc = "FeedReturned" =>
    /\ Len(articles) <= MAX_ARTICLES_PER_BLOG
    /\ Len(articles) = Min(MAX_ARTICLES_PER_BLOG, Cardinality(EligibleIdx))
    /\ \A k \in 1..Len(articles) :
         /\ articles[k].title \in EligibleIdx
         /\ Cardinality({j \in EligibleIdx : j < articles[k].title}) = k - 1

\* C8 witness: more eligible entries than the cap, and a feed where an
\* ineligible entry precedes a returned one
C8_Witness ==
  /\ pc = "FeedReturned"
  /\ \/ Cardinality(EligibleIdx) > MAX_ARTICLES_PER_BLOG
     \/ /\ Len(articles) = MAX_ARTICLES_PER_BLOG
        /\ 1 \notin EligibleIdx
  /\ Len(articles) = MAX_ARTICLES_PER_BLOG

\* ---- model resolution ----------------------------------------------------

Unconverted(k) ==
  deliveries[k].path = deliveries[k].tts /\ deliveries[k].path.suffix = ".mp3"

\* C9: download_model_if_needed is called at most once per run, only by the
\* model resolution step that precedes the first fetch; if the call raised,
\* main() goes on to the sources with conversion disabled for good, apply_rvc
\* is never called and every tg_send_audio call gets the unconverted file.
C9_ModelResolutionOnce ==
  /\ [](/\ dl_calls <= 1
        /\ model_error =>
             /\ pc # "ModelResolution"
             /\ ~use_rvc
             /\ rvc_calls = 0
             /\ \A k \in Delivered : Unconverted(k))
  /\ [][dl_calls' # dl_calls =>
          /\ pc = "ModelResolution" /\ blog = 1 /\ channel = <<>>
          /\ pc' = "Fetch"]_vars

\* C9 witness: a run whose model load failed completed with two deliveries
C9_Witness ==
  model_error /\ pc = "Done" /\ Len(deliveries) >= 2

\* C10: with no model URL configured, whatever the cache holds, neither
\* download_model_if_needed nor apply_rvc is called, no error is recorded,
\* conversion is off and every tg_send_audio call gets the unconverted file.
C10_NoUrlNoConversion ==
  ~HF_MODEL_URL =>
    /\ dl_calls = 0 /\ http_requests = 0
    /\ rvc_calls = 0
    /\ ~use_rvc /\ ~model_error
    /\ \A k \in Delivered : Unconverted(k)

\* C10 witness: no URL, weights already in the cache, a completed run with a
\* delivery
C10_Witness ==
  /\ ~HF_MODEL_URL /\ TopPth \in cache
  /\ pc = "Done" /\ Len(deliveries) >= 1

\* ---- ordering ------------------------------------------------------------

\* the titles of the lists fetched so far, one list after the other
RECURSIVE FetchedTitles(_)
FetchedTitles(n) ==
  IF n = 0 THEN <<>>
  ELSE FetchedTitles(n - 1)
       \o [k \in 1..Len(fetched[n].articles) |-> fetched[n].articles[k].title]

DeliveredTitles == [k \in Delivered |-> deliveries[k].title]
IsPrefix(s, t) == Len(s) <= Len(t) /\ \A k \in 1..Len(s) : s[k] = t[k]

\* C11: sources are fetched in the order of FEEDS, and the tg_send_audio
\* calls made so far are, in order, the articles of the fetched lists taken
\* one list after the other; when the run has reported, they are all of them.
C11_DeliveryOrder ==
  /\ \A i \in 1..Len(fetched) : fetched[i].blog = FEEDS[i]
  /\ IsPrefix(DeliveredTitles, FetchedTitles(Len(fetched)))
  /\ pc = "Done" => DeliveredTitles = FetchedTitles(Len(fetched))

\* C11 witness: a completed run that delivered two articles of the first
\* source and then one of a later source
C11_Witness ==
  /\ pc = "Done"
  /\ Len(fetched[1].articles) = 2
  /\ \E k \in Delivered : k > 2 /\ deliveries[k].blog # deliveries[1].blog

\* ---- batch headers -------------------------------------------------------

Events(ev) == {i \in 1..Len(trace) : trace[i].ev = ev}
HeadersOf(b) == {i \in Events("header") : trace[i].id = b}
TitlesOf(n) == {fetched[n].articles[k].title : k \in 1..Len(fetched[n].articles)}
DeliversOf(n) == {i \in Events("deliver") : trace[i].id \in TitlesOf(n)}

\* C12: a source whose fetch came back empty (nothing eligible, or a parse
\* failure) has no header post and main() is at the next source; a source
\* with articles has exactly one header post once its Announce step has run,
\* made after every tg_send_audio call of the earlier sources and before
\* every tg_send_audio call of its own; a source not fetched yet has none.
C12_BatchHeaders ==
  LET hs == [n \in 1..Len(FEEDS) |-> HeadersOf(FEEDS[n])]
      ds == [n \in 1..Len(fetched) |-> DeliversOf(n)]
  IN /\ \A n \in 1..Len(fetched) :
          IF fetched[n].articles = <<>>
          THEN /\ hs[n] = {}
               /\ n = Len(fetched) => (blog = n + 1 /\ pc \in {"Fetch", "Done"})
          ELSE /\ Cardinality(hs[n]) =
                    (IF n = Len(fetched) /\ pc = "Announce" THEN 0 ELSE 1)
               /\ \A h \in hs[n] :
                    /\ \A d \in ds[n] : h < d
                    /\ \A m \in 1..(n - 1) : \A d \in ds[m] : d < h
     /\ \A n \in (Len(fetched) + 1)..Len(FEEDS) : hs[n] = {}

\* C12 witness: a completed run whose first source was empty and whose
\* second source had two articles, both handed to tg_send_audio
C12_Witness ==
  /\ pc = "Done"
  /\ Len(fetched) >= 2
  /\ fetched[1].articles = <<>>
  /\ Cardinality(DeliversOf(2)) = 2
  /\ Cardinality(HeadersOf(fetched[2].blog)) = 1

\* ---- failures of single stages -------------------------------------------

\* C13 (as claimed): no failure while the synopsis is obtained, the client
\* setup included, ends the run; the article goes on with the fallback text.
C13_SummarizeNeverAborts ==
  /\ error # "summarize"
  /\ pc = "Synthesize" => summary # "none"

\* C14 (as claimed): after every apply_rvc call, returning or raising,
\* neither the _in.wav nor the _rvc.wav intermediate is on disk.
C14_NoIntermediates ==
  \A f \in disk : f.suffix \notin {"_in.wav", "_rvc.wav"}

Accepted(k) == deliveries[k].audio = "ok" \/ deliveries[k].text = "ok"

\* C15 (as claimed): the count of the terminal report equals the number of
\* articles for which the channel accepted the audio post or the text notice.
C15_ReportCount ==
  pc = "Done" => report = Cardinality({k \in Delivered : Accepted(k)})

\* C16 (as claimed): a synthesis failure is fatal to its article only; the
\* run is not ended by it and still reaches the report.
C16_SynthesisFatalToArticleOnly == ~(pc = "Crashed" /\ error = "synthesize")

\* C16 (amended): when tts_to_mp3 raises, the exception leaves main(): there
\* is no tg_send_audio call for that article, no report, and main() takes no
\* further step, so the remaining articles and sources are not processed.
C16_SynthesisFailureEndsRun ==
  /\ [](error = "synthesize" =>
          /\ pc = "Crashed"
          /\ report = -1
          /\ Len(deliveries) = tmp_count - 1
          /\ \A d \in Events("deliver") :
               trace[d].id # CurrentArticle(articles, art).title)
  /\ [][error = "synthesize" => UNCHANGED vars]_vars

\* C16 witness: synthesis failed after an earlier delivery, with an article
\* or a source still to come
C16_Witness ==
  /\ error = "synthesize"
  /\ Len(deliveries) >= 1
  /\ art < Len(articles) \/ blog < Len(FEEDS)

\* ---- the steps on one article --------------------------------------------

ArticleSteps == {"summarize", "synthesize", "convert", "deliver", "notice", "cleanup"}
Follows(i, evs) ==
  i > 1 /\ trace[i - 1].ev \in evs /\ trace[i - 1].id = trace[i].id

\* C17: on every article the steps are taken in the order Summarize,
\* Synthesize, Convert (exactly when conversion is enabled for the run), one
\* tg_send_audio call, Cleanup; an article is started only after a pause that
\* follows the header or the previous article's Cleanup; no step is taken
\* twice; the file handed to tg_send_audio is the article's own and exists
\* when it is opened.
C17_StepProtocol ==
  /\ \A i \in 1..Len(trace) :
       CASE trace[i].ev = "summarize" ->
              /\ i > 2 /\ trace[i - 1].ev = "sleep"
              /\ trace[i - 2].ev \in {"header", "cleanup"}
              /\ trace[i - 2].id # trace[i].id
         [] trace[i].ev = "synthesize" -> Follows(i, {"summarize"})
         [] trace[i].ev = "convert" -> use_rvc /\ Follows(i, {"synthesize"})
         [] trace[i].ev = "deliver" ->
              Follows(i, IF use_rvc THEN {"convert"} ELSE {"synthesize"})
         [] trace[i].ev = "notice" -> Follows(i, {"deliver"})
         [] trace[i].ev = "cleanup" -> Follows(i, {"deliver", "notice"})
         [] OTHER -> TRUE
  /\ LET steps == {i \in 1..Len(trace) : trace[i].ev \in ArticleSteps}
     IN Cardinality({<<trace[i].ev, trace[i].id>> : i \in steps})
          = Cardinality(steps)
  /\ \A k \in Delivered :
       /\ deliveries[k].audio # "unopened"
       /\ deliveries[k].tts = TmpName(k)
       /\ deliveries[k].path.stem = k

\* C17 witness: a completed run with conversion enabled that delivered a
\* converted file and then processed another article
C17_Witness ==
  /\ pc = "Done" /\ use_rvc
  /\ \E k \in Delivered :
       /\ k < Len(deliveries)
       /\ deliveries[k].path.suffix = "_kanevsky.mp3"

\* ---- pacing --------------------------------------------------------------

\* C18: between a header post and the next tg_send_audio call, between two
\* consecutive tg_send_audio calls, and between a tg_send_audio call and the
\* next source's header post, main() sleeps.
C18_Pacing ==
  LET posts == Events("header") \cup Events("deliver")
      sleeps == {m \in Events("sleep") : trace[m].n > 0}
  IN \A i \in posts : \A j \in posts :
       i < j => \E m \in sleeps : i < m /\ m < j

\* C18 witness: a delivery, then the next source's header, then a delivery
C18_Witness ==
  \E i \in Events("deliver") : \E h \in Events("header") :
    \E j \in Events("deliver") : i < h /\ h < j

\* ---- the text notice -----------------------------------------------------

NoticesOf(title) == {i \in Events("notice") : trace[i].id = title}
MessagesOf(title) ==
  {i \in 1..Len(channel) :
     channel[i].kind \in {"audio", "notice"} /\ channel[i].title = title}

\* C19: the text notice of an article is posted exactly when its audio post
\* came back with a non-success response; an accepted audio post leaves one
\* message for the article, the audio; an audio post that raised leaves no
\* notice.
C19_NoticeIffRejected ==
  \A k \in Delivered :
    LET d == deliveries[k]
    IN /\ (d.text # "none") <=> (d.audio = "notok")
       /\ Cardinality(NoticesOf(d.title)) = (IF d.audio = "notok" THEN 1 ELSE 0)
       /\ d.audio = "ok" =>
            /\ Cardinality(MessagesOf(d.title)) = 1
            /\ \A i \in MessagesOf(d.title) : channel[i].kind = "audio"
       /\ d.audio = "raise" => MessagesOf(d.title) = {}

\* C19 witness: one run with an accepted audio post, a rejected one whose
\* notice was accepted, and one that raised
C19_Witness ==
  /\ \E k \in Delivered : deliveries[k].audio = "ok"
  /\ \E k \in Delivered : deliveries[k].audio = "notok" /\ deliveries[k].text = "ok"
  /\ \E k \in Delivered : deliveries[k].audio = "raise"

\* ---- termination ---------------------------------------------------------

StepsOf(ev, title) == {i \in Events(ev) : trace[i].id = title}

\* C20: unless a call raises an exception that main() does not handle, the
\* run reaches the report; by then every source of FEEDS has been fetched
\* exactly once, in order, every returned article has gone exactly once
\* through Summarize, Synthesize, tg_send_audio and Cleanup, and the item
\* count of each header equals the number of tg_send_audio calls made for
\* its source.
C20_Termination ==
  /\ <>(pc = "Done" \/ pc = "Crashed")
  /\ [](pc = "Done" =>
          /\ Len(fetched) = Len(FEEDS)
          /\ \A n \in 1..Len(fetched) :
               /\ fetched[n].blog = FEEDS[n]
               /\ \A t \in TitlesOf(n) :
                    \A ev \in {"summarize", "synthesize", "deliver", "cleanup"} :
                      Cardinality(StepsOf(ev, t)) = 1
               /\ \A h \in HeadersOf(fetched[n].blog) :
                    trace[h].n = Cardinality(DeliversOf(n))
          /\ Len(deliveries) = Cardinality(Events("deliver")))

\* C20 witness: a reported run that had an empty source, a failed conversion
\* and a rejected audio post
C20_Witness ==
  /\ pc = "Done"
  /\ \E n \in 1..Len(fetched) : fetched[n].articles = <<>>
  /\ \E k \in Delivered : deliveries[k].rvc_raised
  /\ \E k \in Delivered : deliveries[k].audio = "notok"

====
